---- MODULE Spec2Model ----
(***************************************************************************)
(* Model of kernel/trap.c: the trap dispatch layer of the xv6 RISC-V       *)
(* kernel (usertrap, usertrapret, handle_page_fault, clockintr, devintr).  *)
(*                                                                         *)
(* Machine words are kept at their width.  A word is a little-endian       *)
(* sequence of 16-bit limbs: a uint64 has four limbs, a uint has two.      *)
(***************************************************************************)
EXTENDS Integers, Sequences, FiniteSets, TLC

\* ------------------------------------------------------------------------
\* Fixed-width arithmetic on limb sequences
\* ------------------------------------------------------------------------
Limb == 65536

\* uint64 literal from its four 16-bit groups, most significant first
U64(l3, l2, l1, l0) == <<l0, l1, l2, l3>>

\* uint64 value of a small non-negative constant
K(n) == <<n, 0, 0, 0>>

\* uint literal from its two 16-bit groups, most significant first
U32(l1, l0) == <<l0, l1>>

RECURSIVE AndLimb(_, _)
AndLimb(x, y) ==
    IF x = 0 \/ y = 0 THEN 0
    ELSE 2 * AndLimb(x \div 2, y \div 2) + (IF x % 2 = 1 /\ y % 2 = 1 THEN 1 ELSE 0)

\* a & b
AndW(a, b) == [i \in 1..Len(a) |-> AndLimb(a[i], b[i])]

\* ~a
NotW(a) == [i \in 1..Len(a) |-> Limb - 1 - a[i]]

\* a | b
OrW(a, b) == NotW(AndW(NotW(a), NotW(b)))

\* a + b, wrapping at the width of a
AddW(a, b) ==
    LET n == Len(a)
        c[i \in 0..n] == IF i = 0 THEN 0 ELSE (a[i] + b[i] + c[i-1]) \div Limb
    IN  [i \in 1..n |-> (a[i] + b[i] + c[i-1]) % Limb]

\* the word 1 at the width of a
OneW(a) == [i \in 1..Len(a) |-> IF i = 1 THEN 1 ELSE 0]

\* a - b, wrapping at the width of a (two's complement)
SubW(a, b) == AddW(a, AddW(NotW(b), OneW(a)))

\* a > b, unsigned
GtW(a, b) ==
    \E i \in 1..Len(a) :
        /\ a[i] > b[i]
        /\ \A j \in (i+1)..Len(a) : a[j] = b[j]

\* a != 0
NonZeroW(a) == \E i \in 1..Len(a) : a[i] # 0

\* ------------------------------------------------------------------------
\* Constants of the kernel
\* ------------------------------------------------------------------------
\* bit 63 of scause: the trap is an interrupt (0x8000000000000000L)
INTR_BIT == U64(32768, 0, 0, 0)

\* scause of a supervisor software interrupt (0x8000000000000001L)
SCAUSE_SOFT == U64(32768, 0, 0, 1)

\* scause of a supervisor external interrupt (interrupt bit, cause 9)
SCAUSE_EXT == U64(32768, 0, 0, 9)

\* scause values of the synchronous causes usertrap tests for
SCAUSE_ECALL == K(8)
SCAUSE_IPF == K(12)
SCAUSE_LPF == K(13)
SCAUSE_SPF == K(15)

PGSIZE == 4096

\* PGROUNDDOWN(a) = (a) & ~(PGSIZE-1)
PGROUNDDOWN(a) == AndW(a, NotW(K(PGSIZE - 1)))

\* interrupt identifiers of the PLIC sources
UART0_IRQ == 10
VIRTIO0_IRQ == 1
VIRTIO1_IRQ == 2

\* negative results of do_allocate
ENOVMA == -1
ENOMEM == -2
ENOFILE == -3
EMAPFAILED == -4
EBADPERM == -5

\* the SSIP bit of sip
SSIP == K(2)

\* the SEIP bit of sip
SEIP == K(512)

\* ------------------------------------------------------------------------
\* Bounds of the model
\* ------------------------------------------------------------------------
\* number of cores; core 0 is the timekeeping core
NCores == 2

\* number of tick events clockintr is let to handle in one behaviour
MaxTicks == 3

\* number of causes the kernel is let to describe in one behaviour
MaxDescs == 2

Cores == 0..(NCores - 1)

\* the process running on core c (one process per core)
myproc(c) == c

\* the hart id cpuid() reads from tp
cpuid(c) == c

Procs == {myproc(c) : c \in Cores}

\* ------------------------------------------------------------------------
\* Inputs
\* ------------------------------------------------------------------------
PageFaultCauses == {SCAUSE_IPF, SCAUSE_LPF, SCAUSE_SPF}

\* exception causes a user-mode trap is taken with
ExcCauses == {SCAUSE_ECALL, SCAUSE_IPF, SCAUSE_LPF, SCAUSE_SPF, K(2)}

\* interrupt causes: the two the kernel expects, and encodings with the
\* interrupt bit set whose low bits look like a syscall, a page fault or an
\* external interrupt
IntrCauses == {SCAUSE_SOFT, SCAUSE_EXT,
               U64(32768, 0, 0, 8), U64(32768, 0, 0, 12),
               U64(32768, 0, 0, 13), U64(32768, 0, 0, 15),
               U64(32768, 0, 0, 265), U64(32768, 0, 0, 5)}

\* user program counters at the moment of the trap
UserPCs == {K(4096), U64(0, 0, 0, 65532)}

\* faulting instructions: where the instruction is and the address it faults on
FaultSites == {[pc |-> K(4096), va |-> K(4096)],
               [pc |-> U64(0, 0, 0, 65532), va |-> U64(0, 0, 1, 43981)]}

\* system calls: where the ecall instruction is
EcallSites == {[pc |-> upc, va |-> K(0)] : upc \in UserPCs}

\* the instruction a trap for another cause is taken at
TrapSites == {[pc |-> K(4096), va |-> K(0)]}

\* the instructions that can trap with the cause
Sites(cause) ==
    IF cause \in PageFaultCauses THEN FaultSites
    ELSE IF cause = SCAUSE_ECALL THEN EcallSites
    ELSE TrapSites

\* identifiers plic_claim() hands out: none, the three devices, an unknown one
Irqs == {0, UART0_IRQ, VIRTIO0_IRQ, VIRTIO1_IRQ, 5}

\* results of do_allocate: PTE flags on success, an error code otherwise
AllocResults == {0, 23, ENOVMA, ENOMEM, ENOFILE, EMAPFAILED, EBADPERM, -6}

\* watchdog thresholds a configuration can set
WatchdogTimes == {U32(0, 0), U32(0, 1), U32(0, 2)}

\* ------------------------------------------------------------------------
\* State
\* ------------------------------------------------------------------------
VARIABLES
    pc,             \* per core: where the core is
    sstatus,        \* per core: the bits of sstatus that are set
    stvec,          \* per core: the installed trap vector
    sepc,           \* per core: sepc
    scause,         \* per core: scause
    stval,          \* per core: stval
    sip,            \* per core: sip
    killed,         \* per process: p->killed
    tf_epc,         \* per process: p->tf->epc
    l_scause,       \* per core: usertrap's local scause
    which_dev,      \* per core: usertrap's local which_dev
    ticks,          \* uint ticks
    watchdog_time,  \* the watchdog threshold
    watchdog_value, \* ticks at the last watchdog reset
    tickslock,      \* holder of tickslock, or -1
    watchdog_lock,  \* holder of watchdog_lock, or -1
    panicked,       \* the panic message once the system has halted, else ""
    calls,          \* per core: the calls made to collaborators in this trap
    trapped,        \* per core: the registers as the hardware set them
    ticks0,         \* ticks at the start of the behaviour
    nticks,         \* tick events clockintr has completed
    kframe          \* per core: the trap kerneltrap is handling, its locals

vars == <<pc, sstatus, stvec, sepc, scause, stval, sip, killed, tf_epc,
          l_scause, which_dev, ticks, watchdog_time, watchdog_value,
          tickslock, watchdog_lock, panicked, calls, trapped, ticks0, nticks,
          kframe>>

csrs == <<sstatus, stvec, sepc, scause, stval, sip>>
clock == <<ticks, watchdog_time, watchdog_value, tickslock, watchdog_lock, nticks>>

NoTrap == [scause |-> K(0), sepc |-> K(0), stval |-> K(0), sip |-> K(0)]

\* no trap from kernel code is being handled
NoFrame == [on |-> FALSE, from |-> "", sepc |-> K(0), sstatus |-> {},
            scause |-> K(0), which_dev |-> 0, state |-> "", clobbered |-> FALSE,
            calls |-> <<>>]

\* the state once every core runs its process in user mode
InitWith(t0, wt) ==
    /\ pc = [c \in Cores |-> "user"]
    /\ sstatus = [c \in Cores |-> {"SIE", "SPIE"}]
    /\ stvec = [c \in Cores |-> "uservec"]
    /\ sepc = [c \in Cores |-> K(0)]
    /\ scause = [c \in Cores |-> K(0)]
    /\ stval = [c \in Cores |-> K(0)]
    /\ sip = [c \in Cores |-> K(0)]
    /\ killed = [p \in Procs |-> FALSE]
    /\ tf_epc = [p \in Procs |-> K(0)]
    /\ l_scause = [c \in Cores |-> K(0)]
    /\ which_dev = [c \in Cores |-> 0]
    /\ ticks = t0
    /\ ticks0 = t0
    /\ nticks = 0
    /\ watchdog_time = wt
    /\ watchdog_value = t0
    /\ tickslock = -1
    /\ watchdog_lock = -1
    /\ panicked = ""
    /\ calls = [c \in Cores |-> <<>>]
    /\ trapped = [c \in Cores |-> NoTrap]
    /\ kframe = [c \in Cores |-> NoFrame]

\* after boot: no tick yet, the watchdog off
Init == InitWith(U32(0, 0), U32(0, 0))

\* ------------------------------------------------------------------------
\* Hardware: a trap taken in user mode
\* ------------------------------------------------------------------------
\* sstatus after the hardware takes a trap from privilege level prev
TrapStatus(st, prev) ==
    ((st \ {"SIE", "SPIE", "SPP"})
        \cup (IF "SIE" \in st THEN {"SPIE"} ELSE {}))
        \cup (IF prev = "S" THEN {"SPP"} ELSE {})

\* the pending bits the cause raises in sip
Pending(cause) ==
    IF cause = SCAUSE_SOFT THEN SSIP
    ELSE IF cause = SCAUSE_EXT THEN SEIP
    ELSE K(0)

\* the registers of core c once the hardware has taken, in user mode, a trap
\* with this cause at user program counter upc, with faulting address va
\* (seip: an external interrupt is pending as well)
TrapRegs(c, cause, upc, va, seip) ==
    [scause |-> cause, sepc |-> upc, stval |-> va,
     sstatus |-> TrapStatus(sstatus[c], "U"),
     sip |-> IF seip THEN OrW(Pending(cause), SEIP) ELSE Pending(cause)]

\* ------------------------------------------------------------------------
\* handle_page_fault
\* ------------------------------------------------------------------------
\* p->pagetable
pagetable(p) == <<"pagetable", p>>

\* handle_page_fault handing do_allocate the faulting address as it is
handle_page_fault_unrounded(p, cause, va, epc, flags) ==
    LET resolve == << <<"handle_page_fault", p, cause, va, epc>>,
                      <<"acquire", "vma_lock", p>>,
                      <<"do_allocate", pagetable(p), p, va, cause, flags>>,
                      <<"release", "vma_lock", p>> >>
    IN  IF flags < 0
        THEN [calls |-> resolve \o << <<"proc_vmprint", p>>,
                                      <<"return", "handle_page_fault", -1>> >>,
              kill |-> TRUE, ret |-> -1]
        ELSE [calls |-> resolve \o << <<"return", "handle_page_fault", 0>> >>,
              kill |-> FALSE, ret |-> 0]

\* handle_page_fault failing only for the error codes it has a message for
handle_page_fault_named(p, cause, va, epc, flags) ==
    LET addr == PGROUNDDOWN(va)
        resolve == << <<"handle_page_fault", p, cause, va, epc>>,
                      <<"acquire", "vma_lock", p>>,
                      <<"do_allocate", pagetable(p), p, addr, cause, flags>>,
                      <<"release", "vma_lock", p>> >>
    IN  IF flags \in {ENOVMA, ENOMEM, ENOFILE, EMAPFAILED, EBADPERM}
        THEN [calls |-> resolve \o << <<"proc_vmprint", p>>,
                                      <<"return", "handle_page_fault", -1>> >>,
              kill |-> TRUE, ret |-> -1]
        ELSE [calls |-> resolve \o << <<"return", "handle_page_fault", 0>> >>,
              kill |-> FALSE, ret |-> 0]

\* handle_page_fault releasing the lock on the success path only
handle_page_fault_leaky(p, cause, va, epc, flags) ==
    LET addr == PGROUNDDOWN(va)
        locked == << <<"handle_page_fault", p, cause, va, epc>>,
                     <<"acquire", "vma_lock", p>>,
                     <<"do_allocate", pagetable(p), p, addr, cause, flags>> >>
    IN  IF flags < 0
        THEN [calls |-> locked \o << <<"proc_vmprint", p>>,
                                     <<"return", "handle_page_fault", -1>> >>,
              kill |-> TRUE, ret |-> -1]
        ELSE [calls |-> locked \o << <<"release", "vma_lock", p>>,
                                     <<"return", "handle_page_fault", 0>> >>,
              kill |-> FALSE, ret |-> 0]

\* handle_page_fault(p, cause, va, epc), with flags the result of do_allocate:
\* the calls it makes, whether it sets p->killed, and what it returns
handle_page_fault(p, cause, va, epc, flags) ==
    LET addr == PGROUNDDOWN(va)
        resolve == << <<"handle_page_fault", p, cause, va, epc>>,
                      <<"acquire", "vma_lock", p>>,
                      <<"do_allocate", pagetable(p), p, addr, cause, flags>>,
                      <<"release", "vma_lock", p>> >>
    IN  IF flags < 0
        THEN [calls |-> resolve \o << <<"proc_vmprint", p>>,
                                      <<"return", "handle_page_fault", -1>> >>,
              kill |-> TRUE, ret |-> -1]
        ELSE [calls |-> resolve \o << <<"return", "handle_page_fault", 0>> >>,
              kill |-> FALSE, ret |-> 0]

\* ------------------------------------------------------------------------
\* clockintr and devintr
\* ------------------------------------------------------------------------
\* clockintr counting every tick twice
clockintr_double(t, wv, wt) ==
    LET locked == << <<"clockintr">>,
                     <<"acquire", "watchdog_lock">>, <<"acquire", "tickslock">> >>
    IN  IF NonZeroW(wt) /\ GtW(SubW(t, wv), wt)
        THEN [panic |-> "watchdog !!!", ticks |-> t, done |-> 0,
              calls |-> locked]
        ELSE [panic |-> "", ticks |-> AddW(AddW(t, OneW(t)), OneW(t)), done |-> 1,
              calls |-> locked \o << <<"wakeup", "ticks">>,
                                     <<"release", "tickslock">>,
                                     <<"release", "watchdog_lock">> >>]

\* clockintr halting as soon as the elapsed ticks reach the threshold
clockintr_reach(t, wv, wt) ==
    LET locked == << <<"clockintr">>,
                     <<"acquire", "watchdog_lock">>, <<"acquire", "tickslock">> >>
    IN  IF NonZeroW(wt) /\ ~GtW(wt, SubW(t, wv))
        THEN [panic |-> "watchdog !!!", ticks |-> t, done |-> 0,
              calls |-> locked]
        ELSE [panic |-> "", ticks |-> AddW(t, OneW(t)), done |-> 1,
              calls |-> locked \o << <<"wakeup", "ticks">>,
                                     <<"release", "tickslock">>,
                                     <<"release", "watchdog_lock">> >>]

\* clockintr() with ticks = t, watchdog_value = wv, watchdog_time = wt
clockintr(t, wv, wt) ==
    LET locked == << <<"clockintr">>,
                     <<"acquire", "watchdog_lock">>, <<"acquire", "tickslock">> >>
    IN  IF NonZeroW(wt) /\ GtW(SubW(t, wv), wt)
        THEN [panic |-> "watchdog !!!", ticks |-> t, done |-> 0,
              calls |-> locked]
        ELSE [panic |-> "", ticks |-> AddW(t, OneW(t)), done |-> 1,
              calls |-> locked \o << <<"wakeup", "ticks">>,
                                     <<"release", "tickslock">>,
                                     <<"release", "watchdog_lock">> >>]

\* what clockintr does when it is not called
NoClock == [panic |-> "", ticks |-> ticks, done |-> 0, calls |-> <<>>]

\* the device routine devintr runs for the claimed identifier
Service(irq) ==
    IF irq = UART0_IRQ THEN << <<"uartintr">> >>
    ELSE IF irq = VIRTIO0_IRQ \/ irq = VIRTIO1_IRQ
         THEN << <<"virtio_disk_intr", irq - VIRTIO0_IRQ>> >>
         ELSE <<>>

\* the cause is a supervisor external interrupt, as devintr tests it
IsExternal(cause) ==
    NonZeroW(AndW(cause, INTR_BIT)) /\ AndW(cause, K(255)) = K(9)

\* devintr's result when it recognises nothing
Unrecognized(h) ==
    [ret |-> 0, panic |-> "", ticks |-> ticks, done |-> 0, sip |-> h.sip,
     calls |-> <<>>]

\* the external-interrupt branch completing whatever was claimed, 0 included
external_intr_always(h, irq) ==
    [ret |-> 1, panic |-> "", ticks |-> ticks, done |-> 0, sip |-> h.sip,
     calls |-> << <<"plic_claim", irq>> >> \o Service(irq)
               \o << <<"plic_complete", irq>> >>]

\* the external-interrupt branch completing only what a device routine served
external_intr_known(h, irq) ==
    [ret |-> 1, panic |-> "", ticks |-> ticks, done |-> 0, sip |-> h.sip,
     calls |-> << <<"plic_claim", irq>> >> \o Service(irq)
               \o (IF Service(irq) # <<>>
                   THEN << <<"plic_complete", irq>> >> ELSE <<>>)]

\* devintr's external-interrupt branch, irq the identifier plic_claim() returns
external_intr(h, irq) ==
    [ret |-> 1, panic |-> "", ticks |-> ticks, done |-> 0, sip |-> h.sip,
     calls |-> << <<"plic_claim", irq>> >> \o Service(irq)
               \o (IF irq # 0 THEN << <<"plic_complete", irq>> >> ELSE <<>>)]

\* the software-interrupt branch calling clockintr on every core
software_intr_anycore(c, h) ==
    LET k == clockintr(ticks, watchdog_value, watchdog_time)
    IN  IF k.panic # ""
        THEN [ret |-> -1, panic |-> k.panic, ticks |-> k.ticks,
              done |-> 0, sip |-> h.sip, calls |-> k.calls]
        ELSE [ret |-> 2, panic |-> "", ticks |-> k.ticks,
              done |-> k.done, sip |-> AndW(h.sip, NotW(K(2))),
              calls |-> k.calls \o << <<"w_sip">> >>]

\* devintr's software-interrupt branch on core c
software_intr(c, h) ==
    LET k == IF cpuid(c) = 0
             THEN clockintr(ticks, watchdog_value, watchdog_time)
             ELSE NoClock
    IN  IF k.panic # ""
        THEN [ret |-> -1, panic |-> k.panic, ticks |-> k.ticks,
              done |-> 0, sip |-> h.sip, calls |-> k.calls]
        ELSE [ret |-> 2, panic |-> "", ticks |-> k.ticks,
              done |-> k.done, sip |-> AndW(h.sip, NotW(K(2))),
              calls |-> k.calls \o << <<"w_sip">> >>]

\* devintr() on core c with registers h, irq the identifier plic_claim()
\* returns: what it returns, the calls it makes, ticks and sip afterwards
devintr(c, h, irq) ==
    IF IsExternal(h.scause) THEN external_intr(h, irq)
    ELSE IF h.scause = SCAUSE_SOFT THEN software_intr(c, h)
    ELSE Unrecognized(h)

\* clockintr spins in acquire() until both locks are free
CanDevintr(c, h) ==
    (h.scause = SCAUSE_SOFT /\ cpuid(c) = 0)
        => (tickslock = -1 /\ watchdog_lock = -1)

\* the identifiers plic_claim() can return to devintr
Claimable(h) == IF IsExternal(h.scause) THEN Irqs ELSE {0}

\* the effect of devintr's result d on the shared state, on core c
DevintrEffect(c, d) ==
    /\ ticks' = d.ticks
    /\ nticks' = nticks + d.done
    /\ sip' = [sip EXCEPT ![c] = d.sip]
    /\ panicked' = d.panic
    /\ tickslock' = IF d.panic # "" THEN c ELSE tickslock
    /\ watchdog_lock' = IF d.panic # "" THEN c ELSE watchdog_lock
    /\ UNCHANGED <<watchdog_time, watchdog_value>>

\* ------------------------------------------------------------------------
\* scause_desc
\* ------------------------------------------------------------------------
RESERVED_STD == "<reserved for future standard use>"
RESERVED_CUSTOM == "<reserved for custom use>"
RESERVED_PLATFORM == "<reserved for platform use>"

\* intr_desc[code] is at position code + 1
intr_desc ==
    << "user software interrupt", "supervisor software interrupt",
       RESERVED_STD, RESERVED_STD,
       "user timer interrupt", "supervisor timer interrupt",
       RESERVED_STD, RESERVED_STD,
       "user external interrupt", "supervisor external interrupt",
       RESERVED_STD, RESERVED_STD, RESERVED_STD, RESERVED_STD,
       RESERVED_STD, RESERVED_STD >>

\* nointr_desc[code] is at position code + 1
nointr_desc ==
    << "instruction address misaligned", "instruction access fault",
       "illegal instruction", "breakpoint",
       "load address misaligned", "load access fault",
       "store/AMO address misaligned", "store/AMO access fault",
       "environment call from U-mode", "environment call from S-mode",
       RESERVED_STD, RESERVED_STD,
       "instruction page fault", "load page fault",
       RESERVED_STD, "store/AMO page fault" >>

\* NELEM(x)
NELEM(x) == Len(x)

\* scause_desc taking bit 61 of the cause for the interrupt bit
scause_desc_bit61(cause) ==
    LET bit == U64(8192, 0, 0, 0)
        interrupt == AndW(cause, bit)
        code == AndW(cause, NotW(bit))
    IN  IF NonZeroW(interrupt)
        THEN IF GtW(K(NELEM(intr_desc)), code) THEN intr_desc[code[1] + 1]
             ELSE RESERVED_PLATFORM
        ELSE IF GtW(K(NELEM(nointr_desc)), code) THEN nointr_desc[code[1] + 1]
        ELSE IF ~GtW(code, K(23)) THEN RESERVED_STD
        ELSE IF ~GtW(code, K(31)) THEN RESERVED_CUSTOM
        ELSE IF ~GtW(code, K(47)) THEN RESERVED_STD
        ELSE IF ~GtW(code, K(63)) THEN RESERVED_CUSTOM
        ELSE RESERVED_STD

\* scause_desc(cause): the description of a trap cause
scause_desc(cause) ==
    LET interrupt == AndW(cause, INTR_BIT)
        code == AndW(cause, NotW(INTR_BIT))
    IN  IF NonZeroW(interrupt)
        THEN IF GtW(K(NELEM(intr_desc)), code) THEN intr_desc[code[1] + 1]
             ELSE RESERVED_PLATFORM
        ELSE IF GtW(K(NELEM(nointr_desc)), code) THEN nointr_desc[code[1] + 1]
        ELSE IF ~GtW(code, K(23)) THEN RESERVED_STD
        ELSE IF ~GtW(code, K(31)) THEN RESERVED_CUSTOM
        ELSE IF ~GtW(code, K(47)) THEN RESERVED_STD
        ELSE IF ~GtW(code, K(63)) THEN RESERVED_CUSTOM
        ELSE RESERVED_STD

\* ------------------------------------------------------------------------
\* usertrap
\* ------------------------------------------------------------------------
Call(c, seq) == calls' = [calls EXCEPT ![c] = @ \o seq]

\* the system-call branch without the check of p->killed
usertrap_syscall_unchecked(c, h) ==
    LET p == myproc(c)
        epc == AddW(h.sepc, K(4))
        st == h.sstatus \cup {"SIE"}
    IN  /\ tf_epc' = [tf_epc EXCEPT ![p] = epc]
        /\ sstatus' = [sstatus EXCEPT ![c] = st]
        /\ sip' = [sip EXCEPT ![c] = h.sip]
        /\ Call(c, << <<"intr_on", epc>>, <<"syscall", epc, "SIE" \in st>> >>)
        /\ pc' = [pc EXCEPT ![c] = "syscall"]
        /\ UNCHANGED <<killed, which_dev, clock, panicked>>

\* scause == 8: a system call
usertrap_syscall(c, h) ==
    LET p == myproc(c) IN
    IF killed[p]
    THEN /\ tf_epc' = [tf_epc EXCEPT ![p] = h.sepc]
         /\ sstatus' = [sstatus EXCEPT ![c] = h.sstatus]
         /\ sip' = [sip EXCEPT ![c] = h.sip]
         /\ Call(c, << <<"exit", -1>> >>)
         /\ pc' = [pc EXCEPT ![c] = "exited"]
         /\ UNCHANGED <<killed, which_dev, clock, panicked>>
    ELSE LET epc == AddW(h.sepc, K(4))
             st == h.sstatus \cup {"SIE"}
         IN  /\ tf_epc' = [tf_epc EXCEPT ![p] = epc]
             /\ sstatus' = [sstatus EXCEPT ![c] = st]
             /\ sip' = [sip EXCEPT ![c] = h.sip]
             /\ Call(c, << <<"intr_on", epc>>, <<"syscall", epc, "SIE" \in st>> >>)
             /\ pc' = [pc EXCEPT ![c] = "syscall"]
             /\ UNCHANGED <<killed, which_dev, clock, panicked>>

\* the page-fault branch stepping over the faulting instruction
usertrap_pagefault_advancing(c, h) ==
    LET p == myproc(c) IN
    \E flags \in AllocResults :
       \E r \in {handle_page_fault(p, h.scause, h.stval, h.sepc, flags)} :
            /\ tf_epc' = [tf_epc EXCEPT ![p] = AddW(h.sepc, K(4))]
            /\ sstatus' = [sstatus EXCEPT ![c] = h.sstatus]
            /\ sip' = [sip EXCEPT ![c] = h.sip]
            /\ Call(c, r.calls)
            /\ killed' = [killed EXCEPT ![p] = @ \/ r.kill]
            /\ pc' = [pc EXCEPT ![c] = "check"]
            /\ UNCHANGED <<which_dev, clock, panicked>>

\* scause == 0xf, 0xd or 0xc: a page fault
usertrap_pagefault(c, h) ==
    LET p == myproc(c) IN
    \E flags \in AllocResults :
       \E r \in {handle_page_fault(p, h.scause, h.stval, h.sepc, flags)} :
            /\ tf_epc' = [tf_epc EXCEPT ![p] = h.sepc]
            /\ sstatus' = [sstatus EXCEPT ![c] = h.sstatus]
            /\ sip' = [sip EXCEPT ![c] = h.sip]
            /\ Call(c, r.calls)
            /\ killed' = [killed EXCEPT ![p] = @ \/ r.kill]
            /\ pc' = [pc EXCEPT ![c] = "check"]
            /\ UNCHANGED <<which_dev, clock, panicked>>

\* every other cause: devintr(), and an unexpected cause kills the process
usertrap_devintr(c, h) ==
    LET p == myproc(c) IN
    /\ CanDevintr(c, h)
    /\ \E irq \in Claimable(h) :
       \E d \in {devintr(c, h, irq)} :
            /\ DevintrEffect(c, d)
            /\ tf_epc' = [tf_epc EXCEPT ![p] = h.sepc]
            /\ sstatus' = [sstatus EXCEPT ![c] = h.sstatus]
            /\ Call(c, << <<"devintr", d.ret>> >> \o d.calls
                       \o (IF d.ret = 0
                           THEN << <<"scause_desc", h.scause,
                                     scause_desc(h.scause)>> >>
                           ELSE <<>>))
            /\ which_dev' = [which_dev EXCEPT ![c] =
                                IF d.panic # "" THEN 0 ELSE d.ret]
            /\ killed' = [killed EXCEPT ![p] = @ \/ (d.ret = 0)]
            /\ pc' = [pc EXCEPT ![c] = IF d.panic # "" THEN "panic" ELSE "check"]

\* usertrap() telling the causes apart by the low byte of scause only
usertrap_body_masked(c, h) ==
    LET low == AndW(h.scause, K(255)) IN
    IF "SPP" \in h.sstatus
    THEN /\ panicked' = "usertrap: not from user mode"
         /\ pc' = [pc EXCEPT ![c] = "panic"]
         /\ sstatus' = [sstatus EXCEPT ![c] = h.sstatus]
         /\ sip' = [sip EXCEPT ![c] = h.sip]
         /\ UNCHANGED <<stvec, killed, tf_epc, l_scause, which_dev, clock, calls>>
    ELSE /\ stvec' = [stvec EXCEPT ![c] = "kernelvec"]
         /\ l_scause' = [l_scause EXCEPT ![c] = h.scause]
         /\ IF low = K(8) THEN usertrap_syscall(c, h)
            ELSE IF low = K(15) \/ low = K(13) THEN usertrap_pagefault(c, h)
            ELSE IF low = K(12) THEN usertrap_pagefault(c, h)
            ELSE usertrap_devintr(c, h)

\* usertrap() on core c, entered with registers h, from its entry to the end
\* of the cause handling
usertrap_body(c, h) ==
    IF "SPP" \in h.sstatus
    THEN /\ panicked' = "usertrap: not from user mode"
         /\ pc' = [pc EXCEPT ![c] = "panic"]
         /\ sstatus' = [sstatus EXCEPT ![c] = h.sstatus]
         /\ sip' = [sip EXCEPT ![c] = h.sip]
         /\ UNCHANGED <<stvec, killed, tf_epc, l_scause, which_dev, clock, calls>>
    ELSE /\ stvec' = [stvec EXCEPT ![c] = "kernelvec"]
         /\ l_scause' = [l_scause EXCEPT ![c] = h.scause]
         /\ IF h.scause = K(8) THEN usertrap_syscall(c, h)
            ELSE IF h.scause = K(15) \/ h.scause = K(13)
                 THEN usertrap_pagefault(c, h)
            ELSE IF h.scause = K(12) THEN usertrap_pagefault(c, h)
            ELSE usertrap_devintr(c, h)

\* core c, in user mode, takes a trap with one of the given causes and
\* usertrap() handles it
usertrap(c, causes) ==
    /\ panicked = ""
    /\ pc[c] = "user"
    /\ \E cause \in causes :
       \E site \in Sites(cause),
          seip \in (IF cause = SCAUSE_SOFT THEN BOOLEAN ELSE {FALSE}) :
       \E h \in {TrapRegs(c, cause, site.pc, site.va, seip)} :
              /\ (cause = SCAUSE_SOFT /\ cpuid(c) = 0) => nticks < MaxTicks
              /\ scause' = [scause EXCEPT ![c] = h.scause]
              /\ sepc' = [sepc EXCEPT ![c] = h.sepc]
              /\ stval' = [stval EXCEPT ![c] = h.stval]
              /\ trapped' = [trapped EXCEPT ![c] =
                    [scause |-> cause, sepc |-> site.pc, stval |-> site.va,
                     sip |-> h.sip]]
              /\ usertrap_body(c, h)
    /\ UNCHANGED <<ticks0, kframe>>

\* syscall() returns
syscall_return(c) ==
    /\ panicked = ""
    /\ pc[c] = "syscall"
    /\ Call(c, << <<"return", "syscall">> >>)
    /\ pc' = [pc EXCEPT ![c] = "check"]
    /\ UNCHANGED <<csrs, killed, tf_epc, l_scause, which_dev, clock, panicked,
                   trapped, ticks0, kframe>>

\* the system call running on core c is kill(pid of p)
sys_kill(c, p) ==
    /\ panicked = ""
    /\ pc[c] = "syscall"
    /\ pc[p] # "exited"
    /\ ~killed[p]
    /\ killed' = [killed EXCEPT ![p] = TRUE]
    /\ UNCHANGED <<pc, csrs, tf_epc, l_scause, which_dev, clock, panicked,
                   calls, trapped, ticks0, kframe>>

\* usertrap() going on to the return path without the check of p->killed
usertrap_check_unchecked(c) ==
    /\ panicked = ""
    /\ pc[c] = "check"
    /\ IF which_dev[c] = 2
       THEN /\ Call(c, << <<"yield">> >>)
            /\ pc' = [pc EXCEPT ![c] = "yield"]
       ELSE /\ Call(c, << <<"usertrapret">> >>)
            /\ pc' = [pc EXCEPT ![c] = "usertrapret"]
    /\ UNCHANGED <<csrs, killed, tf_epc, l_scause, which_dev, clock, panicked,
                   trapped, ticks0, kframe>>

\* usertrap() after the cause handling: the killed check and the yield
usertrap_check(c) ==
    LET p == myproc(c) IN
    /\ panicked = ""
    /\ pc[c] = "check"
    /\ IF killed[p]
       THEN /\ Call(c, << <<"exit", -1>> >>)
            /\ pc' = [pc EXCEPT ![c] = "exited"]
       ELSE IF which_dev[c] = 2
       THEN /\ Call(c, << <<"yield">> >>)
            /\ pc' = [pc EXCEPT ![c] = "yield"]
       ELSE /\ Call(c, << <<"usertrapret">> >>)
            /\ pc' = [pc EXCEPT ![c] = "usertrapret"]
    /\ UNCHANGED <<csrs, killed, tf_epc, l_scause, which_dev, clock, panicked,
                   trapped, ticks0, kframe>>

\* yield() returns: the scheduler runs the process again, with interrupts
\* off as they were when it yielded
yield_return(c) ==
    /\ panicked = ""
    /\ pc[c] = "yield"
    /\ sstatus' = [sstatus EXCEPT ![c] = @ \ {"SIE"}]
    /\ Call(c, << <<"usertrapret">> >>)
    /\ pc' = [pc EXCEPT ![c] = "usertrapret"]
    /\ UNCHANGED <<stvec, sepc, scause, stval, sip, killed, tf_epc, l_scause,
                   which_dev, clock, panicked, trapped, ticks0, kframe>>

\* ------------------------------------------------------------------------
\* usertrapret and the trampoline
\* ------------------------------------------------------------------------
\* usertrapret() installing the trampoline's vector before it turns the
\* interrupts off
usertrapret_late_off(c) ==
    LET p == myproc(c)
        off == sstatus[c] \ {"SIE"}
        x == (off \ {"SPP"}) \cup {"SPIE"}
    IN  /\ panicked = ""
        /\ pc[c] = "usertrapret"
        /\ stvec' = [stvec EXCEPT ![c] = "uservec"]
        /\ sstatus' = [sstatus EXCEPT ![c] = x]
        /\ sepc' = [sepc EXCEPT ![c] = tf_epc[p]]
        /\ Call(c, << <<"w_stvec", "uservec", "SIE" \in sstatus[c]>>,
                      <<"intr_off">>,
                      <<"userret", pagetable(p)>> >>)
        /\ pc' = [pc EXCEPT ![c] = "userret"]
        /\ UNCHANGED <<scause, stval, sip, killed, tf_epc, l_scause, which_dev,
                       clock, panicked, trapped, ticks0, kframe>>

\* usertrapret() on core c, up to the jump to userret; w_stvec is recorded
\* with the interrupt-enable bit as it is at that moment
usertrapret(c) ==
    LET p == myproc(c)
        off == sstatus[c] \ {"SIE"}
        x == (off \ {"SPP"}) \cup {"SPIE"}
    IN  /\ panicked = ""
        /\ pc[c] = "usertrapret"
        /\ stvec' = [stvec EXCEPT ![c] = "uservec"]
        /\ sstatus' = [sstatus EXCEPT ![c] = x]
        /\ sepc' = [sepc EXCEPT ![c] = tf_epc[p]]
        /\ Call(c, << <<"intr_off">>,
                      <<"w_stvec", "uservec", "SIE" \in off>>,
                      <<"userret", pagetable(p)>> >>)
        /\ pc' = [pc EXCEPT ![c] = "userret"]
        /\ UNCHANGED <<scause, stval, sip, killed, tf_epc, l_scause, which_dev,
                       clock, panicked, trapped, ticks0, kframe>>

\* sstatus after sret
SretStatus(st) ==
    ((st \ {"SIE", "SPP"}) \cup (IF "SPIE" \in st THEN {"SIE"} ELSE {}))
        \cup {"SPIE"}

\* userret in trampoline.S: sret to user mode; usertrap's frame is gone
userret(c) ==
    /\ panicked = ""
    /\ pc[c] = "userret"
    /\ sstatus' = [sstatus EXCEPT ![c] = SretStatus(@)]
    /\ pc' = [pc EXCEPT ![c] = "user"]
    /\ l_scause' = [l_scause EXCEPT ![c] = K(0)]
    /\ which_dev' = [which_dev EXCEPT ![c] = 0]
    /\ calls' = [calls EXCEPT ![c] = <<>>]
    /\ trapped' = [trapped EXCEPT ![c] = NoTrap]
    /\ UNCHANGED <<stvec, sepc, scause, stval, sip, killed, tf_epc,
                   clock, panicked, ticks0, kframe>>

\* ------------------------------------------------------------------------
\* kerneltrap: traps taken by kernel code, through kernelvec
\* ------------------------------------------------------------------------
\* kernel program counters at the moment of the trap
KernelPCs == {U64(0, 0, 32768, 4660)}

\* causes a trap from kernel code is taken with: the two interrupts the
\* kernel expects, another interrupt, and the exceptions usertrap knows
KernelCauses == {SCAUSE_SOFT, SCAUSE_EXT, U64(32768, 0, 0, 5),
                 SCAUSE_ECALL, SCAUSE_IPF, SCAUSE_LPF, SCAUSE_SPF}

\* sstatus of core c as its kernel code runs: a system call runs with the
\* interrupts usertrap turned on, the scheduler loop turns them on itself
KernelStatus(c) ==
    IF pc[c] = "yield" THEN sstatus[c] \cup {"SIE"} ELSE sstatus[c]

\* the status register kerneltrap can find at entry: what the hardware leaves
\* after a trap from supervisor mode and, for two of the causes, the two
\* violations kerneltrap tests for
KernelEntries(st, cause) ==
    LET hw == TrapStatus(st, "S")
    IN  IF cause \in {SCAUSE_SOFT, SCAUSE_ECALL}
        THEN {hw, hw \ {"SPP"}, hw \cup {"SIE"}}
        ELSE {hw}

\* myproc() and myproc()->state as kerneltrap can find them: the scheduler
\* has no process; a process in the kernel is RUNNING or, at a timer tick,
\* may be on its way to sleep
ProcStates(c, cause) ==
    IF pc[c] = "yield" THEN {"none"}
    ELSE IF cause = SCAUSE_SOFT THEN {"RUNNING", "SLEEPING"}
    ELSE {"RUNNING"}

\* kerneltrap()'s frame on core c for the registers h, taken at from
Frame(h, from, state) ==
    [on |-> TRUE, from |-> from, sepc |-> h.sepc, sstatus |-> h.sstatus,
     scause |-> h.scause, which_dev |-> 0, state |-> state,
     clobbered |-> FALSE, calls |-> <<>>]

\* the two writes that end kerneltrap
Restore(f) == << <<"w_sepc", f.sepc>>, <<"w_sstatus", f.sstatus>> >>

\* kerneltrap halts at entry
kerneltrap_halt(c, h, f, msg) ==
    /\ panicked' = msg
    /\ pc' = [pc EXCEPT ![c] = "panic"]
    /\ sstatus' = [sstatus EXCEPT ![c] = h.sstatus]
    /\ sepc' = [sepc EXCEPT ![c] = h.sepc]
    /\ sip' = [sip EXCEPT ![c] = h.sip]
    /\ kframe' = [kframe EXCEPT ![c] =
                    [f EXCEPT !.calls = << <<"panic", msg>> >>]]
    /\ UNCHANGED clock

\* kerneltrap() logging an unrecognized cause and returning
kerneltrap_devintr_lenient(c, h, f) ==
    /\ CanDevintr(c, h)
    /\ \E irq \in Claimable(h) :
       \E d \in {devintr(c, h, irq)} :
       LET seen == << <<"devintr", d.ret>> >> \o d.calls
           yields == d.ret = 2 /\ f.state # "none" /\ f.state = "RUNNING"
       IN  /\ ticks' = d.ticks
           /\ nticks' = nticks + d.done
           /\ sip' = [sip EXCEPT ![c] = d.sip]
           /\ tickslock' = IF d.panic # "" THEN c ELSE tickslock
           /\ watchdog_lock' = IF d.panic # "" THEN c ELSE watchdog_lock
           /\ UNCHANGED <<watchdog_time, watchdog_value>>
           /\ sstatus' = [sstatus EXCEPT ![c] = h.sstatus]
           /\ sepc' = [sepc EXCEPT ![c] = h.sepc]
           /\ IF d.panic # ""
              THEN /\ panicked' = d.panic
                   /\ pc' = [pc EXCEPT ![c] = "panic"]
                   /\ kframe' = [kframe EXCEPT ![c] = [f EXCEPT !.calls = seen]]
              ELSE IF d.ret = 0
              THEN /\ panicked' = ""
                   /\ pc' = [pc EXCEPT ![c] = "kret"]
                   /\ kframe' = [kframe EXCEPT ![c] =
                        [f EXCEPT !.calls = seen \o
                            << <<"scause_desc", f.scause, scause_desc(f.scause)>> >>
                            \o Restore(f)]]
              ELSE IF yields
              THEN /\ panicked' = ""
                   /\ pc' = [pc EXCEPT ![c] = "kyield"]
                   /\ kframe' = [kframe EXCEPT ![c] =
                        [f EXCEPT !.which_dev = d.ret,
                                  !.calls = seen \o << <<"yield">> >>]]
              ELSE /\ panicked' = ""
                   /\ pc' = [pc EXCEPT ![c] = "kret"]
                   /\ kframe' = [kframe EXCEPT ![c] =
                        [f EXCEPT !.which_dev = d.ret,
                                  !.calls = seen \o Restore(f)]]

\* kerneltrap() yielding at every timer tick, whatever the core was running
kerneltrap_devintr_anyproc(c, h, f) ==
    /\ CanDevintr(c, h)
    /\ \E irq \in Claimable(h) :
       \E d \in {devintr(c, h, irq)} :
       LET seen == << <<"devintr", d.ret>> >> \o d.calls
           yields == d.ret = 2
       IN  /\ ticks' = d.ticks
           /\ nticks' = nticks + d.done
           /\ sip' = [sip EXCEPT ![c] = d.sip]
           /\ tickslock' = IF d.panic # "" THEN c ELSE tickslock
           /\ watchdog_lock' = IF d.panic # "" THEN c ELSE watchdog_lock
           /\ UNCHANGED <<watchdog_time, watchdog_value>>
           /\ sstatus' = [sstatus EXCEPT ![c] = h.sstatus]
           /\ sepc' = [sepc EXCEPT ![c] = h.sepc]
           /\ IF d.panic # ""
              THEN /\ panicked' = d.panic
                   /\ pc' = [pc EXCEPT ![c] = "panic"]
                   /\ kframe' = [kframe EXCEPT ![c] = [f EXCEPT !.calls = seen]]
              ELSE IF d.ret = 0
              THEN /\ panicked' = "kerneltrap"
                   /\ pc' = [pc EXCEPT ![c] = "panic"]
                   /\ kframe' = [kframe EXCEPT ![c] =
                        [f EXCEPT !.calls = seen \o
                            << <<"scause_desc", f.scause, scause_desc(f.scause)>>,
                               <<"panic", "kerneltrap">> >>]]
              ELSE IF yields
              THEN /\ panicked' = ""
                   /\ pc' = [pc EXCEPT ![c] = "kyield"]
                   /\ kframe' = [kframe EXCEPT ![c] =
                        [f EXCEPT !.which_dev = d.ret,
                                  !.calls = seen \o << <<"yield">> >>]]
              ELSE /\ panicked' = ""
                   /\ pc' = [pc EXCEPT ![c] = "kret"]
                   /\ kframe' = [kframe EXCEPT ![c] =
                        [f EXCEPT !.which_dev = d.ret,
                                  !.calls = seen \o Restore(f)]]

\* kerneltrap() from devintr() on
kerneltrap_devintr(c, h, f) ==
    /\ CanDevintr(c, h)
    /\ \E irq \in Claimable(h) :
       \E d \in {devintr(c, h, irq)} :
       LET seen == << <<"devintr", d.ret>> >> \o d.calls
           yields == d.ret = 2 /\ f.state # "none" /\ f.state = "RUNNING"
       IN  /\ ticks' = d.ticks
           /\ nticks' = nticks + d.done
           /\ sip' = [sip EXCEPT ![c] = d.sip]
           /\ tickslock' = IF d.panic # "" THEN c ELSE tickslock
           /\ watchdog_lock' = IF d.panic # "" THEN c ELSE watchdog_lock
           /\ UNCHANGED <<watchdog_time, watchdog_value>>
           /\ sstatus' = [sstatus EXCEPT ![c] = h.sstatus]
           /\ sepc' = [sepc EXCEPT ![c] = h.sepc]
           /\ IF d.panic # ""
              THEN /\ panicked' = d.panic
                   /\ pc' = [pc EXCEPT ![c] = "panic"]
                   /\ kframe' = [kframe EXCEPT ![c] = [f EXCEPT !.calls = seen]]
              ELSE IF d.ret = 0
              THEN /\ panicked' = "kerneltrap"
                   /\ pc' = [pc EXCEPT ![c] = "panic"]
                   /\ kframe' = [kframe EXCEPT ![c] =
                        [f EXCEPT !.calls = seen \o
                            << <<"scause_desc", f.scause, scause_desc(f.scause)>>,
                               <<"panic", "kerneltrap">> >>]]
              ELSE IF yields
              THEN /\ panicked' = ""
                   /\ pc' = [pc EXCEPT ![c] = "kyield"]
                   /\ kframe' = [kframe EXCEPT ![c] =
                        [f EXCEPT !.which_dev = d.ret,
                                  !.calls = seen \o << <<"yield">> >>]]
              ELSE /\ panicked' = ""
                   /\ pc' = [pc EXCEPT ![c] = "kret"]
                   /\ kframe' = [kframe EXCEPT ![c] =
                        [f EXCEPT !.which_dev = d.ret,
                                  !.calls = seen \o Restore(f)]]

\* kerneltrap() without the tests of its entry conditions
kerneltrap_body_unchecked(c, h, from, state) ==
    \E f \in {Frame(h, from, state)} : kerneltrap_devintr(c, h, f)

\* kerneltrap() on core c, entered with registers h from the code at from,
\* up to its return, its yield or its halt
kerneltrap_body(c, h, from, state) ==
    \E f \in {Frame(h, from, state)} :
        IF "SPP" \notin f.sstatus
        THEN kerneltrap_halt(c, h, f, "kerneltrap: not from supervisor mode")
        ELSE IF "SIE" \in h.sstatus
        THEN kerneltrap_halt(c, h, f, "kerneltrap: interrupts enabled")
        ELSE kerneltrap_devintr(c, h, f)

\* core c, running kernel code, takes a trap with one of the given causes;
\* kernelvec calls kerneltrap()
kerneltrap(c, causes) ==
    /\ panicked = ""
    /\ pc[c] \in {"syscall", "yield"}
    /\ stvec[c] = "kernelvec"
    /\ \E cause \in causes, kpc \in KernelPCs :
       \E state \in ProcStates(c, cause),
          entry \in KernelEntries(KernelStatus(c), cause) :
          /\ NonZeroW(AndW(cause, INTR_BIT)) => "SIE" \in KernelStatus(c)
          /\ (cause = SCAUSE_SOFT /\ cpuid(c) = 0) => nticks < MaxTicks
          /\ \E h \in {[scause |-> cause, sepc |-> kpc, stval |-> K(0),
                        sstatus |-> entry, sip |-> Pending(cause)]} :
                /\ scause' = [scause EXCEPT ![c] = h.scause]
                /\ stval' = [stval EXCEPT ![c] = h.stval]
                /\ kerneltrap_body(c, h, pc[c], state)
    /\ UNCHANGED <<stvec, killed, tf_epc, l_scause, which_dev, calls, trapped,
                   ticks0>>

\* while the process is off the core inside kerneltrap's yield(), another
\* process runs there, traps from user mode and comes back to it
kyield_clobber(c) ==
    /\ panicked = ""
    /\ pc[c] = "kyield"
    /\ ~kframe[c].clobbered
    /\ \E site \in TrapSites :
          /\ sepc' = [sepc EXCEPT ![c] = site.pc]
          /\ scause' = [scause EXCEPT ![c] = SCAUSE_SOFT]
          /\ sstatus' = [sstatus EXCEPT ![c] = TrapStatus({"SIE", "SPIE"}, "U")]
    /\ kframe' = [kframe EXCEPT ![c].clobbered = TRUE]
    /\ UNCHANGED <<pc, stvec, stval, sip, killed, tf_epc, l_scause, which_dev,
                   clock, panicked, calls, trapped, ticks0>>

\* kerneltrap's yield() returning without the registers being written back
kyield_return_unrestored(c) ==
    /\ panicked = ""
    /\ pc[c] = "kyield"
    /\ kframe' = [kframe EXCEPT ![c].calls = @ \o Restore(kframe[c])]
    /\ pc' = [pc EXCEPT ![c] = "kret"]
    /\ UNCHANGED <<csrs, killed, tf_epc, l_scause, which_dev, clock, panicked,
                   calls, trapped, ticks0>>

\* kerneltrap's yield() returns, and kerneltrap writes sepc and sstatus back
kyield_return(c) ==
    /\ panicked = ""
    /\ pc[c] = "kyield"
    /\ sepc' = [sepc EXCEPT ![c] = kframe[c].sepc]
    /\ sstatus' = [sstatus EXCEPT ![c] = kframe[c].sstatus]
    /\ kframe' = [kframe EXCEPT ![c].calls = @ \o Restore(kframe[c])]
    /\ pc' = [pc EXCEPT ![c] = "kret"]
    /\ UNCHANGED <<stvec, scause, stval, sip, killed, tf_epc, l_scause,
                   which_dev, clock, panicked, calls, trapped, ticks0>>

\* kernelvec after kerneltrap() has returned: sret to the interrupted code
kernelvec_sret(c) ==
    /\ panicked = ""
    /\ pc[c] = "kret"
    /\ pc' = [pc EXCEPT ![c] = kframe[c].from]
    /\ sstatus' = [sstatus EXCEPT ![c] = SretStatus(@)]
    /\ kframe' = [kframe EXCEPT ![c] = NoFrame]
    /\ UNCHANGED <<stvec, sepc, scause, stval, sip, killed, tf_epc, l_scause,
                   which_dev, clock, panicked, calls, trapped, ticks0>>

\* ------------------------------------------------------------------------
\* The tick counter's other users
\* ------------------------------------------------------------------------
\* a system call reads ticks under tickslock (sys_uptime, sys_sleep)
uptime_acquire(c) ==
    /\ panicked = ""
    /\ pc[c] = "syscall"
    /\ tickslock = -1
    /\ tickslock' = c
    /\ sstatus' = [sstatus EXCEPT ![c] = @ \ {"SIE"}]
    /\ pc' = [pc EXCEPT ![c] = "uptime"]
    /\ UNCHANGED <<stvec, sepc, scause, stval, sip, killed, tf_epc, l_scause,
                   which_dev, ticks, watchdog_time, watchdog_value,
                   watchdog_lock, nticks, panicked, calls, trapped, ticks0, kframe>>

uptime_release(c) ==
    /\ panicked = ""
    /\ pc[c] = "uptime"
    /\ tickslock = c
    /\ tickslock' = -1
    /\ sstatus' = [sstatus EXCEPT ![c] = @ \cup {"SIE"}]
    /\ pc' = [pc EXCEPT ![c] = "syscall"]
    /\ UNCHANGED <<stvec, sepc, scause, stval, sip, killed, tf_epc, l_scause,
                   which_dev, ticks, watchdog_time, watchdog_value,
                   watchdog_lock, nticks, panicked, calls, trapped, ticks0, kframe>>

\* a system call resets the watchdog: the threshold is set and the last
\* reset becomes the current tick
watchdog_reset(c, wt) ==
    /\ panicked = ""
    /\ pc[c] = "syscall"
    /\ tickslock = -1
    /\ watchdog_lock = -1
    /\ watchdog_time' = wt
    /\ watchdog_value' = ticks
    /\ UNCHANGED <<pc, csrs, killed, tf_epc, l_scause, which_dev, ticks,
                   tickslock, watchdog_lock, nticks, panicked, calls, trapped,
                   ticks0, kframe>>

\* ------------------------------------------------------------------------
\* Specification
\* ------------------------------------------------------------------------
\* an exception: a system call, a page fault, another synchronous cause
ExcTrap(c) == usertrap(c, ExcCauses)

\* an interrupt, or an exception usertrap leaves to devintr
IntrTrap(c) == usertrap(c, IntrCauses \cup {K(2), K(40)})

\* a timer tick, forwarded as a supervisor software interrupt
TimerTrap(c) == usertrap(c, {SCAUSE_SOFT})

\* a system call
EcallTrap(c) == usertrap(c, {SCAUSE_ECALL})

\* the rest of the way back to user mode
Return(c) ==
    \/ usertrap_check(c)
    \/ usertrapret(c)
    \/ userret(c)

\* system calls and the other exceptions of user code
Next ==
    \E c \in Cores :
        \/ ExcTrap(c)
        \/ Return(c)
        \/ syscall_return(c)
        \/ \E p \in Procs : sys_kill(c, p)

Spec == Init /\ [][Next]_vars

\* interrupts taken in user mode
NextIntr ==
    \E c \in Cores :
        \/ IntrTrap(c)
        \/ Return(c)
        \/ yield_return(c)

SpecIntr == Init /\ [][NextIntr]_vars

\* the tick counter: timer ticks on every core, system calls that read the
\* counter or reset the watchdog, from any value of the counter
InitialTicks == {U32(0, 0), U32(0, 65535), U32(65535, 65534)}

InitClock ==
    \E t0 \in InitialTicks, wt \in WatchdogTimes : InitWith(t0, wt)

NextClock ==
    \E c \in Cores :
        \/ TimerTrap(c)
        \/ EcallTrap(c)
        \/ Return(c)
        \/ yield_return(c)
        \/ syscall_return(c)
        \/ uptime_acquire(c)
        \/ uptime_release(c)
        \/ \E wt \in WatchdogTimes : watchdog_reset(c, wt)

SpecClock == InitClock /\ [][NextClock]_vars

\* a trap taken by kernel code: in a system call or in the scheduler
KernelTrap(c) == kerneltrap(c, KernelCauses)

\* the causes of the user-mode traps that bring a core into the kernel
EntryCauses == {SCAUSE_ECALL, SCAUSE_SOFT, SCAUSE_EXT, SCAUSE_SPF}

UserTrap(c) == usertrap(c, EntryCauses)

\* traps from kernel code, nested in the handling of traps from user mode
NextKernel ==
    \E c \in Cores :
        \/ UserTrap(c)
        \/ KernelTrap(c)
        \/ kyield_clobber(c)
        \/ kyield_return(c)
        \/ kernelvec_sret(c)
        \/ Return(c)
        \/ yield_return(c)
        \/ syscall_return(c)
        \/ \E p \in Procs : sys_kill(c, p)

SpecKernel == Init /\ [][NextKernel]_vars

\* the cause codes scause_desc is asked about: codes inside both tables, the
\* ends of each range of the exception space, codes with bit 63 or bit 61 set
DescCauses ==
    {K(1), K(2), K(9), K(12), K(15), K(16), K(23), K(24), K(31), K(32),
     K(40), K(47), K(48), K(63), K(64), U64(8192, 0, 0, 9),
     SCAUSE_SOFT, SCAUSE_EXT, U64(32768, 0, 0, 15), U64(32768, 0, 0, 16),
     U64(32768, 0, 0, 265), U64(32768, 1, 0, 9)}

RECURSIVE Described(_)
\* the number of descriptions the cores in S have asked for
Described(S) ==
    IF S = {} THEN 0
    ELSE LET c == CHOOSE x \in S : TRUE
         IN  Len(calls[c]) + Described(S \ {c})

\* core c looks up the description of a cause
Describe(c, cause) ==
    /\ Described(Cores) < MaxDescs
    /\ Call(c, << <<"scause_desc", cause, scause_desc(cause)>> >>)
    /\ UNCHANGED <<pc, csrs, killed, tf_epc, l_scause, which_dev, clock,
                   panicked, trapped, ticks0, kframe>>

NextDesc == \E c \in Cores, cause \in DescCauses : Describe(c, cause)

SpecDesc == Init /\ [][NextDesc]_vars

\* ------------------------------------------------------------------------
\* Properties
\* ------------------------------------------------------------------------
\* the positions of the calls to name in the trap core c is handling
At(c, name) == {i \in 1..Len(calls[c]) : calls[c][i][1] = name}

Has(c, name) == At(c, name) # {}

\* core c is handling a trap (or has ended it in exit or panic)
InTrap(c) == pc[c] # "user"

\* the step in which core c takes a trap and usertrap handles its cause
Traps(c) == pc[c] = "user" /\ pc'[c] # "user"

IsInterrupt(cause) == cause[4] >= 32768

\* C1: a system-call trap taken by a process that is already killed ends in
\* exit(-1): syscall() is not called, the saved program counter is the trapped
\* one, not advanced, and interrupts stay disabled.
C1_KilledSyscallExits ==
    [][\A c \in Cores :
        (Traps(c) /\ scause'[c] = SCAUSE_ECALL /\ killed[myproc(c)])
            => /\ pc'[c] = "exited"
               /\ calls'[c] = << <<"exit", -1>> >>
               /\ tf_epc'[myproc(c)] = sepc'[c]
               /\ "SIE" \notin sstatus'[c]]_vars

\* a killed process has taken a system-call trap and exited at once
C1_Witness ==
    \E c \in Cores :
        /\ pc[c] = "exited"
        /\ trapped[c].scause = SCAUSE_ECALL
        /\ calls[c] = << <<"exit", -1>> >>

\* C2: when syscall() is called, and already when interrupts are enabled,
\* p->tf->epc is the trapped sepc + 4; through a page-fault trap, resolved or
\* not, p->tf->epc is the trapped sepc.
C2_EpcAdvance ==
    \A c \in Cores :
        /\ \A i \in At(c, "syscall") \cup At(c, "intr_on") :
              calls[c][i][2] = AddW(trapped[c].sepc, K(4))
        /\ pc[c] = "syscall" =>
              tf_epc[myproc(c)] = AddW(trapped[c].sepc, K(4))
        /\ (InTrap(c) /\ trapped[c].scause \in PageFaultCauses) =>
              tf_epc[myproc(c)] = trapped[c].sepc

\* a system call was dispatched from a program counter whose advance carries
\* into the next limb, and page faults were resolved and were not
C2_Witness ==
    /\ \E c \in Cores :
          /\ Has(c, "syscall")
          /\ trapped[c].sepc = U64(0, 0, 0, 65532)
          /\ tf_epc[myproc(c)] = U64(0, 0, 1, 0)
    /\ \E c \in Cores :
          /\ Has(c, "do_allocate")
          /\ killed[myproc(c)]
          /\ pc[c] = "exited"

\* C3: a cause with the interrupt bit set never reaches handle_page_fault or
\* syscall(), whatever its low bits: it goes to devintr.
C3_InterruptsToDevintr ==
    \A c \in Cores :
        (InTrap(c) /\ IsInterrupt(trapped[c].scause))
            => /\ ~Has(c, "syscall")
               /\ ~Has(c, "handle_page_fault")
               /\ ~Has(c, "do_allocate")
               /\ Has(c, "devintr")

\* an interrupt cause whose low bits are those of a store page fault, and
\* one whose low bits are those of a system call, were handled
C3_Witness ==
    /\ \E c \in Cores :
          InTrap(c) /\ trapped[c].scause = U64(32768, 0, 0, 15)
    /\ \E c \in Cores :
          InTrap(c) /\ trapped[c].scause = U64(32768, 0, 0, 8)

\* a is the address of the page that holds the address v
PageOf(a, v) ==
    /\ a[1] % PGSIZE = 0
    /\ a[1] <= v[1]
    /\ v[1] - a[1] < PGSIZE
    /\ \A i \in 2..4 : a[i] = v[i]

\* C4: a page-fault trap calls do_allocate exactly once, with the process's
\* page table, the cause as trapped, and the page of the faulting address.
C4_AllocateOncePageAligned ==
    \A c \in Cores :
        (InTrap(c) /\ trapped[c].scause \in PageFaultCauses)
            => /\ Cardinality(At(c, "do_allocate")) = 1
               /\ \A i \in At(c, "do_allocate") :
                     /\ calls[c][i][2] = pagetable(myproc(c))
                     /\ calls[c][i][3] = myproc(c)
                     /\ PageOf(calls[c][i][4], trapped[c].stval)
                     /\ calls[c][i][5] = trapped[c].scause

\* an instruction page fault at 0x1abcd went to do_allocate as page 0x1a000,
\* and a store page fault was taken too
C4_Witness ==
    /\ \E c \in Cores :
          /\ trapped[c].scause = SCAUSE_IPF
          /\ trapped[c].stval = U64(0, 0, 1, 43981)
          /\ \E i \in At(c, "do_allocate") :
                calls[c][i][4] = U64(0, 0, 1, 40960)
    /\ \E c \in Cores :
          Has(c, "do_allocate") /\ trapped[c].scause = SCAUSE_SPF

\* name is called in the sequence of calls seq
HasIn(seq, name) == \E i \in 1..Len(seq) : seq[i][1] = name

\* the step in which core c takes a timer tick
Ticks(c) == Traps(c) /\ scause'[c] = SCAUSE_SOFT

\* a + 1 modulo 2^32
Next32(a) ==
    IF a[1] < Limb - 1 THEN <<a[1] + 1, a[2]>>
    ELSE IF a[2] < Limb - 1 THEN <<0, a[2] + 1>>
    ELSE <<0, 0>>

\* b is a + 1 modulo 2^32
Succ32(a, b) == b = Next32(a)

\* a + n modulo 2^32
RECURSIVE PlusN(_, _)
PlusN(a, n) == IF n = 0 THEN a ELSE PlusN(Next32(a), n - 1)

\* b is a + n, without wrapping
ExactPlus(a, n, b) ==
    /\ b[2] - a[2] \in {0, 1}
    /\ (b[2] - a[2]) * Limb + b[1] - a[1] = n

\* C5, as amended: ticks changes only in a tick step of core 0 that clockintr
\* completes, and then to ticks + 1 modulo 2^32; so it is the initial value
\* plus the number of completed tick events modulo 2^32, and it decreases only
\* when it wraps to 0.
C5_TicksModular ==
    [][/\ ticks' # ticks =>
            /\ Ticks(0)
            /\ HasIn(calls'[0], "wakeup")
            /\ Succ32(ticks, ticks')
            /\ nticks' = nticks + 1
       /\ ticks' = ticks => nticks' = nticks
       /\ ticks' = PlusN(ticks0', nticks')
       /\ GtW(ticks, ticks') => ticks' = U32(0, 0)
       /\ \A c \in Cores \ {0} : Ticks(c) => ticks' = ticks]_vars

\* the counter has wrapped: two ticks from 0xfffffffe it is 0
C5_Witness ==
    /\ ticks0 = U32(65535, 65534)
    /\ nticks = 2
    /\ ticks = U32(0, 0)

\* C5, as claimed: ticks never decreases, it is the initial value plus the
\* number of tick events exactly, and only core 0 changes it.
C5_Original ==
    [][/\ ~GtW(ticks, ticks')
       /\ ExactPlus(ticks0', nticks', ticks')
       /\ \A c \in Cores \ {0} : Ticks(c) => ticks' = ticks]_vars

\* the ticks since the last watchdog reset
Elapsed ==
    CHOOSE n \in 0..(2 * MaxTicks + 2) : PlusN(watchdog_value, n) = ticks

\* the watchdog is on and more ticks than its threshold have elapsed
Hung ==
    /\ watchdog_time # U32(0, 0)
    /\ watchdog_time[2] = 0
    /\ Elapsed > watchdog_time[1]

\* C6: a tick event halts the system exactly when the watchdog threshold is
\* not 0 and the ticks elapsed since the last reset exceed it; it then leaves
\* ticks alone and wakes nobody; otherwise it increments ticks and calls
\* wakeup(&ticks).  Nothing else of the tick path halts.
C6_WatchdogHalt ==
    [][/\ Ticks(0) =>
            IF Hung
            THEN /\ panicked' = "watchdog !!!"
                 /\ ticks' = ticks
                 /\ ~HasIn(calls'[0], "wakeup")
            ELSE /\ panicked' = ""
                 /\ Succ32(ticks, ticks')
                 /\ HasIn(calls'[0], "wakeup")
       /\ (panicked = "" /\ panicked' # "") => (Ticks(0) /\ Hung)]_vars

\* the watchdog has halted the system, with a threshold of 1, at the third
\* tick after the reset
C6_Witness ==
    /\ panicked = "watchdog !!!"
    /\ watchdog_time = U32(0, 1)
    /\ Elapsed = 2
    /\ Has(0, "clockintr")
    /\ ~Has(0, "wakeup")

\* the external interrupt core c is handling, by the claimed identifier
Claimed(c) == {calls[c][i][2] : i \in At(c, "plic_claim")}

DeviceRoutines == {"uartintr", "virtio_disk_intr"}

\* C7: when plic_claim() returns 0, devintr runs no device routine, does not
\* call plic_complete and returns 1.
C7_SpuriousClaim ==
    \A c \in Cores :
        0 \in Claimed(c)
            => /\ \A n \in DeviceRoutines : ~Has(c, n)
               /\ ~Has(c, "plic_complete")
               /\ calls[c][1] = <<"devintr", 1>>

\* an external interrupt whose claim returned 0 was handled
C7_Witness ==
    \E c \in Cores :
        /\ trapped[c].scause = SCAUSE_EXT
        /\ Claimed(c) = {0}
        /\ pc[c] = "check"

\* C8: when plic_claim() returns a non-zero identifier, plic_complete is
\* called exactly once, with that identifier, after the device routine if
\* one runs; a device routine runs only for its own identifier; one claim is
\* made per call of devintr.
C8_CompleteClaimed ==
    \A c \in Cores :
        /\ Cardinality(At(c, "plic_claim")) <= 1
        /\ Has(c, "uartintr") => Claimed(c) = {UART0_IRQ}
        /\ Has(c, "virtio_disk_intr") =>
              (Claimed(c) = {VIRTIO0_IRQ} \/ Claimed(c) = {VIRTIO1_IRQ})
        /\ \A irq \in Claimed(c) \ {0} :
              /\ Cardinality(At(c, "plic_complete")) = 1
              /\ \A i \in At(c, "plic_complete") :
                    /\ calls[c][i][2] = irq
                    /\ \A n \in DeviceRoutines : \A j \in At(c, n) : j < i
                    /\ \A j \in At(c, "plic_claim") : j < i

\* an identifier of no known device was claimed and completed, and the UART's
\* was served and then completed
C8_Witness ==
    /\ \E c \in Cores :
          /\ Claimed(c) = {5}
          /\ Has(c, "plic_complete")
    /\ \E c \in Cores :
          /\ Claimed(c) = {UART0_IRQ}
          /\ Has(c, "uartintr")
          /\ Has(c, "plic_complete")

\* the cause number: the cause without the interrupt bit
CauseNumber(cause) ==
    <<cause[1], cause[2], cause[3], cause[4] % 32768>>

\* C9: devintr returns 1 exactly for the interrupt bit with cause number 9,
\* 2 exactly for the supervisor software interrupt, 0 for every other cause,
\* and when it returns 0 it has called nothing and changed nothing.
C9_Claim ==
    \A c \in Cores :
        Has(c, "devintr") =>
            LET cause == trapped[c].scause
                ret == calls[c][1][2]
            IN  /\ ret = 1 <=> (IsInterrupt(cause) /\ CauseNumber(cause) = K(9))
                /\ ret = 2 <=> cause = SCAUSE_SOFT
                /\ ret \in {0, 1, 2}
                /\ ret = 0 =>
                      /\ \A n \in DeviceRoutines \cup
                                  {"plic_claim", "plic_complete", "clockintr",
                                   "wakeup", "w_sip"} : ~Has(c, n)
                      /\ sip[c] = trapped[c].sip

\* C10: on a software interrupt clockintr is called on core 0 and on no other
\* core; on every core devintr, when it returns, returns 2 and has cleared
\* SSIP in sip, leaving the other bits of sip alone.
C10_TimerOnCoreZero ==
    \A c \in Cores :
        (InTrap(c) /\ trapped[c].scause = SCAUSE_SOFT)
            => /\ Has(c, "clockintr") <=> cpuid(c) = 0
               /\ Has(c, "wakeup") => cpuid(c) = 0
               /\ pc[c] # "panic" =>
                     /\ calls[c][1] = <<"devintr", 2>>
                     /\ Has(c, "w_sip")
                     /\ (sip[c][1] \div 2) % 2 = 0
                     /\ sip[c][1] = trapped[c].sip[1] - 2
                     /\ \A i \in 2..4 : sip[c][i] = trapped[c].sip[i]

\* core 0 and another core have each handled a timer tick, the other core
\* with an external interrupt pending as well
C10_Witness ==
    /\ InTrap(0) /\ trapped[0].scause = SCAUSE_SOFT /\ Has(0, "wakeup")
    /\ \E c \in Cores \ {0} :
          /\ pc[c] = "yield"
          /\ trapped[c].scause = SCAUSE_SOFT
          /\ trapped[c].sip = OrW(SSIP, SEIP)
          /\ sip[c] = SEIP

\* the results handle_page_fault has returned in the sequence of calls seq
PageFaultReturns(seq) ==
    {seq[i][3] : i \in {j \in 1..Len(seq) :
                           seq[j][1] = "return" /\ seq[j][2] = "handle_page_fault"}}

\* the results do_allocate has given in the sequence of calls seq
AllocFlags(seq) ==
    {seq[i][6] : i \in {j \in 1..Len(seq) : seq[j][1] = "do_allocate"}}

\* name is called in seq before handle_page_fault returns
BeforeReturn(seq, name) ==
    \E i, j \in 1..Len(seq) :
        i < j /\ seq[i][1] = name /\ seq[j][1] = "return"

\* C12: for every negative result of do_allocate handle_page_fault dumps the
\* mapping layout, sets p->killed and returns -1; for every other result it
\* returns 0 and leaves p->killed as it was.  It calls neither exit nor panic:
\* control comes back to usertrap.
C12_FaultOutcome ==
    [][\A c \in Cores :
        (Traps(c) /\ scause'[c] \in PageFaultCauses)
            => /\ \A flags \in AllocFlags(calls'[c]) :
                     IF flags < 0
                     THEN /\ PageFaultReturns(calls'[c]) = {-1}
                          /\ killed'[myproc(c)]
                          /\ BeforeReturn(calls'[c], "proc_vmprint")
                     ELSE /\ PageFaultReturns(calls'[c]) = {0}
                          /\ killed'[myproc(c)] = killed[myproc(c)]
                          /\ ~HasIn(calls'[c], "proc_vmprint")
               /\ AllocFlags(calls'[c]) # {}
               /\ ~HasIn(calls'[c], "exit")
               /\ pc'[c] = "check"
               /\ panicked' = panicked]_vars

\* a fault failed with a result that is none of the named error codes, and
\* a fault was resolved with PTE flags and left the process alive
C12_Witness ==
    /\ \E c \in Cores :
          /\ AllocFlags(calls[c]) = {-6}
          /\ PageFaultReturns(calls[c]) = {-1}
          /\ killed[myproc(c)]
    /\ \E c \in Cores :
          /\ AllocFlags(calls[c]) = {23}
          /\ PageFaultReturns(calls[c]) = {0}
          /\ ~killed[myproc(c)]

\* the positions at which core c calls op on the lock
LockAt(c, op, lock) ==
    {i \in 1..Len(calls[c]) : calls[c][i][1] = op /\ calls[c][i][2] = lock}

\* how often the vma_lock is held just before position i of core c's calls
VmaHeld(c, i) ==
    Cardinality({j \in LockAt(c, "acquire", "vma_lock") : j < i})
        - Cardinality({j \in LockAt(c, "release", "vma_lock") : j < i})

\* C13: handle_page_fault acquires the process's vma_lock once and releases it
\* once, whatever do_allocate returns; do_allocate runs with the lock held,
\* and the lock is free when handle_page_fault returns.
C13_VmaLockPaired ==
    \A c \in Cores :
        Has(c, "handle_page_fault")
            => /\ Cardinality(LockAt(c, "acquire", "vma_lock")) = 1
               /\ Cardinality(LockAt(c, "release", "vma_lock")) = 1
               /\ \A i \in LockAt(c, "acquire", "vma_lock")
                           \cup LockAt(c, "release", "vma_lock") :
                     calls[c][i][3] = myproc(c)
               /\ \A i \in At(c, "do_allocate") : VmaHeld(c, i) = 1
               /\ \A i \in LockAt(c, "return", "handle_page_fault") :
                     VmaHeld(c, i) = 0
               /\ LockAt(c, "return", "handle_page_fault") # {}

\* a fault at 0x1000 found no VMA: the process is killed and the lock was
\* released once; another fault was resolved
C13_Witness ==
    /\ \E c \in Cores :
          /\ trapped[c].stval = K(4096)
          /\ AllocFlags(calls[c]) = {ENOVMA}
          /\ killed[myproc(c)]
          /\ Cardinality(LockAt(c, "release", "vma_lock")) = 1
    /\ \E c \in Cores :
          /\ AllocFlags(calls[c]) = {0}
          /\ Cardinality(LockAt(c, "release", "vma_lock")) = 1

\* the last call core c has made
LastCall(seq) == seq[Len(seq)]

\* C14: when p->killed is set as usertrap reaches its check after the cause
\* handling, usertrap calls exit(-1), and the trap calls neither yield() nor
\* usertrapret(): the process stays out of user mode.  An unrecognized cause
\* sets the killed flag of the trapping process only, halts nothing, and comes
\* to that check.
C14_KilledExits ==
    [][\A c \in Cores :
        /\ (pc[c] = "check" /\ pc'[c] # "check" /\ killed[myproc(c)])
              => /\ pc'[c] = "exited"
                 /\ LastCall(calls'[c]) = <<"exit", -1>>
                 /\ ~HasIn(calls'[c], "yield")
                 /\ ~HasIn(calls'[c], "usertrapret")
        /\ pc[c] = "exited" => (pc'[c] = "exited" /\ calls'[c] = calls[c])
        /\ (Traps(c) /\ calls'[c][1] = <<"devintr", 0>>)
              => /\ killed'[myproc(c)]
                 /\ \A q \in Procs \ {myproc(c)} : killed'[q] = killed[q]
                 /\ panicked' = ""
                 /\ pc'[c] = "check"]_vars

\* a process killed during its system call has exited when syscall()
\* returned, and a process has exited on a cause usertrap does not recognize
C14_Witness ==
    /\ \E c \in Cores :
          /\ pc[c] = "exited"
          /\ LockAt(c, "return", "syscall") # {}
          /\ ~Has(c, "usertrapret")
    /\ \E c \in Cores :
          /\ pc[c] = "exited"
          /\ trapped[c].scause = K(2)
          /\ calls[c][1] = <<"devintr", 0>>

\* the descriptions given for the cause, on any core
DescOf(cause) ==
    UNION {{calls[c][i][3] : i \in {j \in 1..Len(calls[c]) :
                calls[c][j][1] = "scause_desc" /\ calls[c][j][2] = cause}}
           : c \in Cores}

\* the causes described so far
DescribedCauses ==
    UNION {{calls[c][i][2] : i \in At(c, "scause_desc")} : c \in Cores}

\* the cause number is that of an entry of the 16-entry tables
InTable(cause) ==
    /\ CauseNumber(cause)[1] < 16
    /\ \A i \in 2..4 : CauseNumber(cause)[i] = 0

\* C15, as amended: scause_desc describes 0x8000000000000009 (bit 63 set,
\* cause 9) as "supervisor external interrupt"; 0x2000000000000009 has bit 63
\* clear and is an exception code beyond the tables, described as
\* "<reserved for future standard use>", as is the exception code 40.  Bit 63
\* selects the interrupt table or the exception table, and the codes outside
\* the tables get the fallback labels.
C15_DescLookup ==
    /\ DescOf(SCAUSE_EXT) \subseteq {"supervisor external interrupt"}
    /\ DescOf(U64(8192, 0, 0, 9)) \subseteq {"<reserved for future standard use>"}
    /\ DescOf(K(40)) \subseteq {"<reserved for future standard use>"}
    /\ DescOf(K(9)) \subseteq {"environment call from S-mode"}
    /\ DescOf(SCAUSE_SOFT) \subseteq {"supervisor software interrupt"}
    /\ DescOf(K(1)) \subseteq {"instruction access fault"}
    /\ DescOf(K(15)) \subseteq {"store/AMO page fault"}
    /\ DescOf(U64(32768, 0, 0, 15)) \subseteq {"<reserved for future standard use>"}
    /\ \A cause \in DescribedCauses :
          ~InTable(cause) =>
              IF IsInterrupt(cause)
              THEN DescOf(cause) = {"<reserved for platform use>"}
              ELSE DescOf(cause) \subseteq {"<reserved for future standard use>",
                                            "<reserved for custom use>"}

\* 0x2000000000000009 and 0x8000000000000009 were both looked up
C15_Witness ==
    /\ DescOf(U64(8192, 0, 0, 9)) = {"<reserved for future standard use>"}
    /\ DescOf(SCAUSE_EXT) = {"supervisor external interrupt"}

\* a fallback label without its angle brackets
Unbracketed(desc) ==
    IF desc = RESERVED_STD THEN "reserved for future standard use"
    ELSE IF desc = RESERVED_CUSTOM THEN "reserved for custom use"
    ELSE IF desc = RESERVED_PLATFORM THEN "reserved for platform use"
    ELSE desc

\* C15, as claimed: 0x2000000000000009 is described as "supervisor external
\* interrupt" and the exception code 40 as "reserved for future standard use".
C15_Original ==
    /\ \A d \in DescOf(U64(8192, 0, 0, 9)) :
          Unbracketed(d) = "supervisor external interrupt"
    /\ \A d \in DescOf(K(40)) :
          Unbracketed(d) = "reserved for future standard use"

\* the step in which core c takes a trap from kernel code and kerneltrap runs
KTraps(c) == ~kframe[c].on /\ kframe'[c].on

\* what devintr returned to kerneltrap in the sequence of calls seq
KReturned(seq) == {seq[i][2] : i \in {j \in 1..Len(seq) : seq[j][1] = "devintr"}}

\* the calls that classify and handle a cause
Handling == {"devintr", "plic_claim", "plic_complete", "uartintr",
             "virtio_disk_intr", "clockintr", "wakeup", "w_sip", "yield"}

\* C11: kerneltrap entered with previous privilege user (SPP clear) or with
\* interrupts enabled halts, and it halts before devintr: no classification,
\* no claim, no tick, no yield.
C11_KernelEntryHalts ==
    [][\A c \in Cores :
        (KTraps(c) /\ ("SPP" \notin sstatus'[c] \/ "SIE" \in sstatus'[c]))
            => /\ pc'[c] = "panic"
               /\ panicked' = (IF "SPP" \notin sstatus'[c]
                               THEN "kerneltrap: not from supervisor mode"
                               ELSE "kerneltrap: interrupts enabled")
               /\ \A n \in Handling : ~HasIn(kframe'[c].calls, n)
               /\ ticks' = ticks
               /\ sip'[c] = Pending(scause'[c])]_vars

\* a timer tick reached kerneltrap on core 0 with previous privilege user:
\* the system halted and the tick was not counted
C11_Witness ==
    /\ panicked = "kerneltrap: not from supervisor mode"
    /\ kframe[0].on
    /\ kframe[0].scause = SCAUSE_SOFT
    /\ "SPP" \notin kframe[0].sstatus
    /\ pc[0] = "panic"
    /\ nticks = 0

\* C16: a trap from kernel code whose cause devintr does not recognize, the
\* system call and the page faults among them, halts the system: kerneltrap
\* calls neither handle_page_fault nor syscall(), kills nobody and does not
\* return.
C16_KernelUnrecognizedHalts ==
    [][\A c \in Cores :
        /\ (KTraps(c) /\ scause'[c] \in PageFaultCauses \cup {SCAUSE_ECALL}
                /\ "SPP" \in sstatus'[c] /\ "SIE" \notin sstatus'[c])
              => KReturned(kframe'[c].calls) = {0}
        /\ (KTraps(c) /\ 0 \in KReturned(kframe'[c].calls))
              => /\ panicked' = "kerneltrap"
                 /\ pc'[c] = "panic"
                 /\ killed' = killed
                 /\ LastCall(kframe'[c].calls) = <<"panic", "kerneltrap">>
        /\ \A n \in {"handle_page_fault", "do_allocate", "syscall", "exit"} :
              ~HasIn(kframe'[c].calls, n)
        /\ pc[c] = "panic" => pc'[c] = "panic"]_vars

\* a store page fault in kernel code has halted the system
C16_Witness ==
    \E c \in Cores :
        /\ kframe[c].scause = SCAUSE_SPF
        /\ pc[c] = "panic"
        /\ panicked = "kerneltrap"
        /\ ~killed[myproc(c)]

\* C17: when kerneltrap returns, sepc and sstatus hold the values they had
\* when it was entered, also when other traps overwrote them during its
\* yield().
C17_KernelRegsRestored ==
    \A c \in Cores :
        pc[c] = "kret"
            => /\ sepc[c] = kframe[c].sepc
               /\ sstatus[c] = kframe[c].sstatus
               /\ sepc[c] \in KernelPCs
               /\ "SPP" \in sstatus[c]

\* kerneltrap has returned after a yield() during which another process's
\* trap overwrote the registers
C17_Witness ==
    \E c \in Cores :
        /\ pc[c] = "kret"
        /\ kframe[c].clobbered
        /\ HasIn(kframe[c].calls, "yield")
        /\ sepc[c] = U64(0, 0, 32768, 4660)

\* C18: usertrap calls yield() exactly when devintr returned 2 and the
\* process is not killed; kerneltrap calls yield() exactly when devintr
\* returned 2 and there is a current process in state RUNNING.  No system
\* call, page fault or external interrupt yields, nor a tick taken in the
\* scheduler.
C18_YieldOnTick ==
    [][\A c \in Cores :
        /\ (pc[c] = "check" /\ pc'[c] # "check")
              => /\ pc'[c] = "yield" <=>
                        /\ calls[c][1][1] = "devintr"
                        /\ calls[c][1][2] = 2
                        /\ ~killed[myproc(c)]
                 /\ HasIn(calls'[c], "yield") <=> pc'[c] = "yield"
        /\ HasIn(calls'[c], "yield") => trapped'[c].scause = SCAUSE_SOFT
        /\ (KTraps(c) /\ pc'[c] # "panic")
              => /\ pc'[c] = "kyield" <=>
                        /\ KReturned(kframe'[c].calls) = {2}
                        /\ kframe'[c].state = "RUNNING"
                 /\ HasIn(kframe'[c].calls, "yield") <=> pc'[c] = "kyield"
                 /\ pc'[c] = "kyield" =>
                        (scause'[c] = SCAUSE_SOFT /\ pc[c] # "yield")]_vars

\* a tick taken in user mode and a tick taken in a system call have both
\* yielded
C18_Witness ==
    /\ \E c \in Cores : pc[c] = "yield" /\ Has(c, "yield")
    /\ \E c \in Cores : pc[c] = "kyield" /\ kframe[c].from = "syscall"

\* C19: in the kernel, interrupts are enabled only with kernelvec installed;
\* usertrapret has the interrupts off when it installs the trampoline's
\* vector, and at the jump to userret they are still off, stvec is the
\* trampoline's uservec, sstatus has previous privilege user and previous
\* interrupt-enable set, and sepc is the saved p->tf->epc.
C19_VectorAndInterrupts ==
    \A c \in Cores :
        /\ (pc[c] # "user" /\ "SIE" \in sstatus[c]) => stvec[c] = "kernelvec"
        /\ pc[c] \in {"syscall", "uptime", "check", "yield", "usertrapret",
                      "kyield", "kret"} => stvec[c] = "kernelvec"
        /\ \A i \in At(c, "w_stvec") :
              /\ calls[c][i][3] = FALSE
              /\ \E j \in At(c, "intr_off") : j < i
        /\ pc[c] = "userret"
              => /\ stvec[c] = "uservec"
                 /\ "SIE" \notin sstatus[c]
                 /\ "SPP" \notin sstatus[c]
                 /\ "SPIE" \in sstatus[c]
                 /\ sepc[c] = tf_epc[myproc(c)]

\* a system call that ran with interrupts enabled is at the jump to userret,
\* its return address the instruction after the ecall
C19_Witness ==
    \E c \in Cores :
        /\ pc[c] = "userret"
        /\ \E i \in At(c, "syscall") : calls[c][i][3] = TRUE
        /\ sepc[c] = U64(0, 0, 1, 0)
        /\ trapped[c].sepc = U64(0, 0, 0, 65532)

\* C20: usertrapret is never entered while p->killed is set, also when the
\* kill arrives while the process is off the core in the timer tick's yield().
C20_Claim ==
    [][\A c \in Cores :
        (pc[c] # "usertrapret" /\ pc'[c] = "usertrapret")
            => ~killed[myproc(c)]]_vars

====
